---- MODULE Spec2Model ----
(***************************************************************************)
(* Model of the Python glue of synpy: the Command IR helpers of            *)
(* synpy/utils.py, the pauliopt synthesizer wrapper and the qiskit         *)
(* Clifford plugin.  Text is modelled as sequences of one-character        *)
(* strings so that lower-casing, formatting and joining are computed as    *)
(* the code computes them.                                                 *)
(***************************************************************************)
EXTENDS Integers, Sequences, FiniteSets, TLC

VARIABLES call, ret, synthesizer, rustCalls, pp

vars == <<call, ret, synthesizer, rustCalls, pp>>

\* ------------------------------------------------------------------ bounds
NumQubits == 2
MaxLen == 2
MaxGadgets == 2

Qubits == 0..(NumQubits - 1)
\* angles in tenths of a radian: 5 is the float 0.5, 15 is the float 1.5
Angles == {5, 15}

BoundedSeq(S, n) == UNION {[1..k -> S] : k \in 0..n}

\* ------------------------------------------------------- values and text
None == [kind |-> "None"]
IntV(i) == [t |-> "int", v |-> i]
FloatV(x) == [t |-> "float", v |-> x]

Return(v) == [kind |-> "return", value |-> v]
Raise(exc, text, subject) ==
  [kind |-> "raise", exc |-> exc, message |-> [text |-> text, subject |-> subject]]

DigitChar == <<"0", "1", "2", "3", "4", "5", "6", "7", "8", "9">>

RECURSIVE IntStr(_)
IntStr(i) ==
  IF i < 10 THEN <<DigitChar[i + 1]>>
  ELSE IntStr(i \div 10) \o <<DigitChar[(i % 10) + 1]>>

FloatStr(x) == IntStr(x \div 10) \o <<".">> \o IntStr(x % 10)

Format(arg) == IF arg.t = "int" THEN IntStr(arg.v) ELSE FloatStr(arg.v)

UpperLetters ==
  <<"A", "B", "C", "D", "E", "F", "G", "H", "I", "J", "K", "L", "M",
    "N", "O", "P", "Q", "R", "S", "T", "U", "V", "W", "X", "Y", "Z">>
LowerLetters ==
  <<"a", "b", "c", "d", "e", "f", "g", "h", "i", "j", "k", "l", "m",
    "n", "o", "p", "q", "r", "s", "t", "u", "v", "w", "x", "y", "z">>

LowerChar(c) ==
  IF \E i \in 1..26 : UpperLetters[i] = c
  THEN LowerLetters[CHOOSE i \in 1..26 : UpperLetters[i] = c]
  ELSE c

Lower(s) == [i \in 1..Len(s) |-> LowerChar(s[i])]

RECURSIVE Join(_, _)
Join(sep, parts) ==
  IF Len(parts) = 0 THEN <<>>
  ELSE IF Len(parts) = 1 THEN parts[1]
  ELSE parts[1] \o sep \o Join(sep, Tail(parts))

\* ------------------------------------------------------------ Command IR
NameH == <<"H">>
NameX == <<"X">>
NameY == <<"Y">>
NameZ == <<"Z">>
NameS == <<"S">>
NameSDgr == <<"S", "D", "g", "r">>
NameV == <<"V">>
NameVDgr == <<"V", "D", "g", "r">>
NameRx == <<"R", "x">>
NameRy == <<"R", "y">>
NameRz == <<"R", "z">>
NameCX == <<"C", "X">>
NameCZ == <<"C", "Z">>

SingleQubitVariants == {"H", "X", "Y", "Z", "S", "SDgr", "V", "VDgr"}
RotationVariants == {"Rx", "Ry", "Rz"}
TwoQubitVariants == {"CX", "CZ"}
DocumentedVariants == SingleQubitVariants \cup RotationVariants \cup TwoQubitVariants
\* variants of the enum that the Python glue does not know
UndocumentedVariants == {"T", "TDgr"}

PyCommand(variant, fields) == [variant |-> variant, fields |-> fields]

isinstance(cmd, variant) == cmd.variant = variant

CliffordCommands ==
  {PyCommand(v, <<IntV(q)>>) : v \in SingleQubitVariants, q \in Qubits}
  \cup {PyCommand(v, <<IntV(p[1]), IntV(p[2])>>) :
          v \in TwoQubitVariants, p \in {qq \in Qubits \X Qubits : qq[1] # qq[2]}}

DocumentedCommands ==
  CliffordCommands
  \cup {PyCommand(v, <<IntV(q), FloatV(th)>>) :
          v \in RotationVariants, q \in Qubits, th \in Angles}

Commands ==
  DocumentedCommands
  \cup {PyCommand(v, <<IntV(q)>>) : v \in UndocumentedVariants, q \in Qubits}

\* mutant: the CZ branch is missing
pycommand_to_tuple_NoCZ(cmd) ==
  IF isinstance(cmd, "H") THEN Return(<<NameH, cmd.fields[1]>>)
  ELSE IF isinstance(cmd, "X") THEN Return(<<NameX, cmd.fields[1]>>)
  ELSE IF isinstance(cmd, "Y") THEN Return(<<NameY, cmd.fields[1]>>)
  ELSE IF isinstance(cmd, "Z") THEN Return(<<NameZ, cmd.fields[1]>>)
  ELSE IF isinstance(cmd, "S") THEN Return(<<NameS, cmd.fields[1]>>)
  ELSE IF isinstance(cmd, "SDgr") THEN Return(<<NameSDgr, cmd.fields[1]>>)
  ELSE IF isinstance(cmd, "V") THEN Return(<<NameV, cmd.fields[1]>>)
  ELSE IF isinstance(cmd, "VDgr") THEN Return(<<NameVDgr, cmd.fields[1]>>)
  ELSE IF isinstance(cmd, "Rx") THEN Return(<<NameRx, cmd.fields[1], cmd.fields[2]>>)
  ELSE IF isinstance(cmd, "Ry") THEN Return(<<NameRy, cmd.fields[1], cmd.fields[2]>>)
  ELSE IF isinstance(cmd, "Rz") THEN Return(<<NameRz, cmd.fields[1], cmd.fields[2]>>)
  ELSE IF isinstance(cmd, "CX") THEN Return(<<NameCX, cmd.fields[1], cmd.fields[2]>>)
  ELSE Raise("ValueError", "Unhandled PyCommand variant: ", cmd.variant)

pycommand_to_tuple(cmd) ==
  IF isinstance(cmd, "H") THEN Return(<<NameH, cmd.fields[1]>>)
  ELSE IF isinstance(cmd, "X") THEN Return(<<NameX, cmd.fields[1]>>)
  ELSE IF isinstance(cmd, "Y") THEN Return(<<NameY, cmd.fields[1]>>)
  ELSE IF isinstance(cmd, "Z") THEN Return(<<NameZ, cmd.fields[1]>>)
  ELSE IF isinstance(cmd, "S") THEN Return(<<NameS, cmd.fields[1]>>)
  ELSE IF isinstance(cmd, "SDgr") THEN Return(<<NameSDgr, cmd.fields[1]>>)
  ELSE IF isinstance(cmd, "V") THEN Return(<<NameV, cmd.fields[1]>>)
  ELSE IF isinstance(cmd, "VDgr") THEN Return(<<NameVDgr, cmd.fields[1]>>)
  ELSE IF isinstance(cmd, "Rx") THEN Return(<<NameRx, cmd.fields[1], cmd.fields[2]>>)
  ELSE IF isinstance(cmd, "Ry") THEN Return(<<NameRy, cmd.fields[1], cmd.fields[2]>>)
  ELSE IF isinstance(cmd, "Rz") THEN Return(<<NameRz, cmd.fields[1], cmd.fields[2]>>)
  ELSE IF isinstance(cmd, "CX") THEN Return(<<NameCX, cmd.fields[1], cmd.fields[2]>>)
  ELSE IF isinstance(cmd, "CZ") THEN Return(<<NameCZ, cmd.fields[1], cmd.fields[2]>>)
  ELSE Raise("ValueError", "Unhandled PyCommand variant: ", cmd.variant)

tuple_to_pycommand(command_tuple) ==
  LET gate == command_tuple[1] IN
  IF gate = NameH THEN Return(PyCommand("H", <<command_tuple[2]>>))
  ELSE IF gate = NameX THEN Return(PyCommand("X", <<command_tuple[2]>>))
  ELSE IF gate = NameY THEN Return(PyCommand("Y", <<command_tuple[2]>>))
  ELSE IF gate = NameZ THEN Return(PyCommand("Z", <<command_tuple[2]>>))
  ELSE IF gate = NameS THEN Return(PyCommand("S", <<command_tuple[2]>>))
  ELSE IF gate = NameSDgr THEN Return(PyCommand("SDgr", <<command_tuple[2]>>))
  ELSE IF gate = NameV THEN Return(PyCommand("V", <<command_tuple[2]>>))
  ELSE IF gate = NameVDgr THEN Return(PyCommand("VDgr", <<command_tuple[2]>>))
  ELSE IF gate = NameRx
    THEN Return(PyCommand("Rx", <<command_tuple[2], command_tuple[3]>>))
  ELSE IF gate = NameRy
    THEN Return(PyCommand("Ry", <<command_tuple[2], command_tuple[3]>>))
  ELSE IF gate = NameRz
    THEN Return(PyCommand("Rz", <<command_tuple[2], command_tuple[3]>>))
  ELSE IF gate = NameCX
    THEN Return(PyCommand("CX", <<command_tuple[2], command_tuple[3]>>))
  ELSE IF gate = NameCZ
    THEN Return(PyCommand("CZ", <<command_tuple[2], command_tuple[3]>>))
  ELSE Raise("ValueError", "Unknown gate type: ", gate)

\* ------------------------------------------------------ QASM serialisation
QasmHeader(n_qubits) ==
  << <<"O", "P", "E", "N", "Q", "A", "S", "M", " ", "2", ".", "0", ";">>,
     <<"i", "n", "c", "l", "u", "d", "e", " ", "\"", "q", "e", "l", "i", "b",
       "1", ".", "i", "n", "c", "\"", ";">>,
     <<"q", "r", "e", "g", " ", "q", "[">> \o IntStr(n_qubits) \o <<"]", ";">> >>

\* one pass of the loop body (lines 77-80): the statement of one command
QasmStatement(t) ==
  LET op == Lower(t[1])
      rest == Tail(t)
      args == [k \in 1..Len(rest) |-> <<"q", "[">> \o Format(rest[k]) \o <<"]">>]
  IN op \o <<" ">> \o Join(<<",", " ">>, args) \o <<";">>

RECURSIVE QasmLoop(_, _, _)
QasmLoop(commands, i, out) ==
  IF i > Len(commands) THEN Return(Join(<<"\n">>, out))
  ELSE LET t == pycommand_to_tuple(commands[i]) IN
       IF t.kind = "raise" THEN t
       ELSE QasmLoop(commands, i + 1, Append(out, QasmStatement(t.value)))

pycommand_to_qasm(n_qubits, commands) ==
  QasmLoop(commands, 1, QasmHeader(n_qubits))

\* --------------------------------------------- pauliopt circuit emitter
Circuit(num_qubits) == [num_qubits |-> num_qubits, gates |-> <<>>]

\* a method call on the host circuit: circuit.<method>(*args)
HostCall(circuit, method, args) ==
  [circuit EXCEPT !.gates = Append(@, [method |-> method, args |-> args])]

\* the body of the for loop for one converted tuple t (lines 25-53);
\* Python's t[k] is t[k + 1] here
EmitGate(circuit, t) ==
  LET gate == t[1] IN
  IF gate = NameH THEN Return(HostCall(circuit, "h", <<t[2]>>))
  ELSE IF gate = NameX THEN Return(HostCall(circuit, "x", <<t[2]>>))
  ELSE IF gate = NameY THEN Return(HostCall(circuit, "y", <<t[2]>>))
  ELSE IF gate = NameZ THEN Return(HostCall(circuit, "z", <<t[2]>>))
  ELSE IF gate = NameS THEN Return(HostCall(circuit, "s", <<t[2]>>))
  ELSE IF gate = NameSDgr THEN Return(HostCall(circuit, "sdg", <<t[2]>>))
  ELSE IF gate = NameV THEN Return(HostCall(circuit, "v", <<t[2]>>))
  ELSE IF gate = NameVDgr THEN Return(HostCall(circuit, "vdg", <<t[2]>>))
  ELSE IF gate = NameRx THEN Return(HostCall(circuit, "rx", <<t[3], t[2]>>))
  ELSE IF gate = NameRy THEN Return(HostCall(circuit, "ry", <<t[3], t[2]>>))
  ELSE IF gate = NameRz THEN Return(HostCall(circuit, "rz", <<t[3], t[2]>>))
  ELSE IF gate = NameCX THEN Return(HostCall(circuit, "cx", <<t[3], t[2]>>))
  ELSE IF gate = NameCZ THEN Return(HostCall(circuit, "cz", <<t[3], t[2]>>))
  ELSE Raise("ValueError", "Unhandled gate type: ", gate)

\* mutant: the loop stops at a failed conversion and returns what it has built
RECURSIVE CircuitLoopSwallow(_, _, _)
CircuitLoopSwallow(py_commends, i, circuit) ==
  IF i > Len(py_commends) THEN Return(circuit)
  ELSE LET t == pycommand_to_tuple(py_commends[i]) IN
       IF t.kind = "raise" THEN Return(circuit)
       ELSE LET e == EmitGate(circuit, t.value) IN
            IF e.kind = "raise" THEN e
            ELSE CircuitLoopSwallow(py_commends, i + 1, e.value)

RECURSIVE CircuitLoop(_, _, _)
CircuitLoop(py_commends, i, circuit) ==
  IF i > Len(py_commends) THEN Return(circuit)
  ELSE LET t == pycommand_to_tuple(py_commends[i]) IN
       IF t.kind = "raise" THEN t
       ELSE LET e == EmitGate(circuit, t.value) IN
            IF e.kind = "raise" THEN e
            ELSE CircuitLoop(py_commends, i + 1, e.value)

py_commands_to_circuit(py_commends, num_qubits) ==
  CircuitLoop(py_commends, 1, Circuit(num_qubits))

\* ------------------------------------------------ calls of the helpers
NoCall == [fn |-> "none", args |-> <<>>]

\* gate names that tuple_to_pycommand does not know
UnknownGateNames == {<<"T">>, <<"h">>, <<"c", "x">>, <<"S", "d", "g">>}

GateTuples ==
  {pycommand_to_tuple(c).value : c \in DocumentedCommands}
  \cup {<<g, IntV(q)>> : g \in UnknownGateNames, q \in Qubits}

CommandSeqs == BoundedSeq(Commands, MaxLen)

CallPycommandToTuple ==
  /\ call = NoCall
  /\ \E cmd \in Commands :
       /\ call' = [fn |-> "pycommand_to_tuple", args |-> <<cmd>>]
       /\ ret' = pycommand_to_tuple(cmd)
       /\ UNCHANGED <<synthesizer, rustCalls, pp>>

CallTupleToPycommand ==
  /\ call = NoCall
  /\ \E t \in GateTuples :
       /\ call' = [fn |-> "tuple_to_pycommand", args |-> <<t>>]
       /\ ret' = tuple_to_pycommand(t)
       /\ UNCHANGED <<synthesizer, rustCalls, pp>>

CallPycommandToQasm ==
  /\ call = NoCall
  /\ \E commands \in CommandSeqs :
       /\ call' = [fn |-> "pycommand_to_qasm", args |-> <<NumQubits, commands>>]
       /\ ret' = pycommand_to_qasm(NumQubits, commands)
       /\ UNCHANGED <<synthesizer, rustCalls, pp>>

CallPyCommandsToCircuit ==
  /\ call = NoCall
  /\ \E commands \in CommandSeqs :
       /\ call' = [fn |-> "_py_commands_to_circuit", args |-> <<commands, NumQubits>>]
       /\ ret' = py_commands_to_circuit(commands, NumQubits)
       /\ UNCHANGED <<synthesizer, rustCalls, pp>>

Init ==
  /\ call = NoCall
  /\ ret = None
  /\ synthesizer = None
  /\ rustCalls = <<>>
  /\ pp = None

Next ==
  \/ CallPycommandToTuple
  \/ CallTupleToPycommand
  \/ CallPycommandToQasm
  \/ CallPyCommandsToCircuit

Spec == Init /\ [][Next]_vars

\* ---------------------------------------------- OpenQASM 2 statement syntax
RECURSIVE IndexFrom(_, _, _)
IndexFrom(s, c, i) ==
  IF i > Len(s) THEN 0
  ELSE IF s[i] = c THEN i
  ELSE IndexFrom(s, c, i + 1)

\* index of the first occurrence of character c in s, 0 if there is none
IndexOf(s, c) == IndexFrom(s, c, 1)

RECURSIVE SplitFrom(_, _, _, _)
SplitFrom(s, sep, start, i) ==
  IF i + Len(sep) - 1 > Len(s) THEN <<SubSeq(s, start, Len(s))>>
  ELSE IF SubSeq(s, i, i + Len(sep) - 1) = sep
    THEN <<SubSeq(s, start, i - 1)>> \o SplitFrom(s, sep, i + Len(sep), i + Len(sep))
  ELSE SplitFrom(s, sep, start, i + 1)

Split(s, sep) == SplitFrom(s, sep, 1, 1)

Lines(text) == Split(text, <<"\n">>)

\* a gate statement  name[(params)] operand, operand;  taken apart
ParseStatement(line) ==
  LET sp == IndexOf(line, " ")
      head == IF sp = 0 THEN line ELSE SubSeq(line, 1, sp - 1)
      body == IF sp = 0 THEN <<>> ELSE SubSeq(line, sp + 1, Len(line))
      lp == IndexOf(head, "(")
      terminated == Len(body) > 0 /\ body[Len(body)] = ";"
      operandText == IF terminated THEN SubSeq(body, 1, Len(body) - 1) ELSE body
  IN [name |-> IF lp = 0 THEN head ELSE SubSeq(head, 1, lp - 1),
      params |-> IF lp = 0 THEN <<>>
                 ELSE Split(SubSeq(head, lp + 1, Len(head) - 1), <<",">>),
      operands |-> IF Len(operandText) = 0 THEN <<>>
                   ELSE Split(operandText, <<",", " ">>),
      terminated |-> terminated]

\* --------------------------------------------------- PauliOptSynthesizer
NrQubits == 3

PauliStrategies == {"NAIVE", "PSGS"}
CliffordStrategies == {"NAIVE", "PERMROWCOL"}

PauliOptSynthesizer_init(pauli_polynomial_strategy, clifford_strategy) ==
  [pauli_polynomial_strategy |-> pauli_polynomial_strategy,
   clifford_strategy |-> clifford_strategy]

\* pauliopt's Pauli enumeration and the value of each member
Paulis == {"Pauli.I", "Pauli.X", "Pauli.Y", "Pauli.Z"}

PauliValue(pauli) ==
  CASE pauli = "Pauli.I" -> <<"I">>
    [] pauli = "Pauli.X" -> <<"X">>
    [] pauli = "Pauli.Y" -> <<"Y">>
    [] pauli = "Pauli.Z" -> <<"Z">>

PauliGadget(angle, paulis) == [angle |-> angle, paulis |-> paulis]

NrLegs(paulis) == Cardinality({i \in 1..Len(paulis) : paulis[i] # "Pauli.I"})

\* the gadgets create_random_phase_gadget can build: randint(min_legs, max_legs)
\* legs with min_legs = 1 and max_legs = num_qubits (the upper end excluded)
PhaseGadgets(num_qubits) ==
  {PauliGadget(FloatV(a), ps) :
     a \in Angles,
     ps \in {x \in [1..num_qubits -> Paulis] :
              NrLegs(x) >= 1 /\ NrLegs(x) < num_qubits}}

\* PauliPolynomial(num_qubits) and  pp >>= gadget
PauliPolynomial(num_qubits) == [num_qubits |-> num_qubits, pauli_gadgets |-> <<>>]

RShift(pauli_polynomial, gadget) ==
  [pauli_polynomial EXCEPT !.pauli_gadgets = Append(@, gadget)]

PyPauliString(pauli_string, phase) == [pauli_string |-> pauli_string, phase |-> phase]

to_py_pauli_string(pauli_gadget) ==
  LET pauli_string ==
        Join(<<>>, [i \in 1..Len(pauli_gadget.paulis) |->
                      PauliValue(pauli_gadget.paulis[i])])
  IN PyPauliString(pauli_string, pauli_gadget.angle)

\* ---- the core's synthesize_pauli_exponential, Naive strategy
RECURSIVE Concat(_)
Concat(seqs) ==
  IF Len(seqs) = 0 THEN <<>> ELSE Head(seqs) \o Concat(Tail(seqs))

Reverse(s) == [i \in 1..Len(s) |-> s[Len(s) + 1 - i]]

RECURSIVE LegsFrom(_, _)
LegsFrom(pauli_string, i) ==
  IF i > Len(pauli_string) THEN <<>>
  ELSE IF pauli_string[i] # "I" THEN <<i - 1>> \o LegsFrom(pauli_string, i + 1)
  ELSE LegsFrom(pauli_string, i + 1)

\* basis change in front of the staircase: X legs by H, Y legs by SDgr then H
BasisIn(pauli_string, legs) ==
  Concat([k \in 1..Len(legs) |->
    IF pauli_string[legs[k] + 1] = "X"
      THEN <<PyCommand("H", <<IntV(legs[k])>>)>>
    ELSE IF pauli_string[legs[k] + 1] = "Y"
      THEN <<PyCommand("SDgr", <<IntV(legs[k])>>), PyCommand("H", <<IntV(legs[k])>>)>>
    ELSE <<>>])

BasisOut(pauli_string, legs) ==
  Concat([k \in 1..Len(legs) |->
    IF pauli_string[legs[k] + 1] = "X"
      THEN <<PyCommand("H", <<IntV(legs[k])>>)>>
    ELSE IF pauli_string[legs[k] + 1] = "Y"
      THEN <<PyCommand("H", <<IntV(legs[k])>>), PyCommand("S", <<IntV(legs[k])>>)>>
    ELSE <<>>])

Staircase(legs) ==
  [k \in 1..(Len(legs) - 1) |-> PyCommand("CX", <<IntV(legs[k]), IntV(legs[k + 1])>>)]

NaiveGadget(pauli) ==
  LET legs == LegsFrom(pauli.pauli_string, 1) IN
  IF Len(legs) = 0 THEN <<>>
  ELSE BasisIn(pauli.pauli_string, legs)
       \o Staircase(legs)
       \o <<PyCommand("Rz", <<IntV(legs[Len(legs)]), pauli.phase>>)>>
       \o Reverse(Staircase(legs))
       \o BasisOut(pauli.pauli_string, legs)

synthesize_pauli_exponential(hamiltonian, clifford_gates, nr_qubits) ==
  Concat([b \in 1..Len(hamiltonian) |->
    Concat([k \in 1..Len(hamiltonian[b]) |-> NaiveGadget(hamiltonian[b][k])])])

\* ---- PauliOptSynthesizer.synthesize
\* mutant: the list is built back to front
HamiltonianReprReversed(pauli_polynomial) ==
  [k \in 1..Len(pauli_polynomial.pauli_gadgets) |->
     to_py_pauli_string(
       pauli_polynomial.pauli_gadgets[Len(pauli_polynomial.pauli_gadgets) + 1 - k])]

HamiltonianRepr(pauli_polynomial) ==
  [k \in 1..Len(pauli_polynomial.pauli_gadgets) |->
     to_py_pauli_string(pauli_polynomial.pauli_gadgets[k])]

\* the keyword arguments of the call of the core on line 60
CoreCallArgs(self, pauli_polynomial) ==
  [hamiltonian |-> <<HamiltonianRepr(pauli_polynomial)>>,
   clifford_gates |-> <<>>,
   nr_qubits |-> pauli_polynomial.num_qubits]

Construct ==
  /\ synthesizer = None
  /\ \E pps \in PauliStrategies, cs \in CliffordStrategies :
       synthesizer' = PauliOptSynthesizer_init(pps, cs)
  /\ UNCHANGED <<call, ret, rustCalls, pp>>

\* the caller grows the polynomial one gadget at a time
AddGadget ==
  /\ call = NoCall
  /\ synthesizer # None
  /\ Len(pp.pauli_gadgets) < MaxGadgets
  /\ \E gadget \in PhaseGadgets(pp.num_qubits) : pp' = RShift(pp, gadget)
  /\ UNCHANGED <<call, ret, synthesizer, rustCalls>>

Synthesize ==
  /\ synthesizer # None
  /\ call = NoCall
  /\ LET pauli_polynomial == pp
         kwargs == CoreCallArgs(synthesizer, pauli_polynomial)
         py_commands ==
           synthesize_pauli_exponential(
             kwargs.hamiltonian, kwargs.clifford_gates, kwargs.nr_qubits)
     IN /\ call' = [fn |-> "synthesize", args |-> <<pauli_polynomial>>]
        /\ rustCalls' =
             Append(rustCalls,
                    [fn |-> "synthesize_pauli_exponential", kwargs |-> kwargs])
        /\ ret' = py_commands_to_circuit(py_commands, pauli_polynomial.num_qubits)
  /\ UNCHANGED <<synthesizer, pp>>

\* a synthesizer built with the default strategies, as the test builds it
InitSynth ==
  /\ call = NoCall
  /\ ret = None
  /\ synthesizer = PauliOptSynthesizer_init("NAIVE", "NAIVE")
  /\ rustCalls = <<>>
  /\ pp = PauliPolynomial(NrQubits)

NextSynth == AddGadget \/ Synthesize

SpecSynth == InitSynth /\ [][NextSynth]_vars

InitStrategy ==
  /\ call = NoCall
  /\ ret = None
  /\ synthesizer = None
  /\ rustCalls = <<>>
  /\ pp = PauliPolynomial(NrQubits)

NextStrategy == Construct \/ AddGadget \/ Synthesize

SpecStrategy == InitStrategy /\ [][NextStrategy]_vars

\* ------------------------------------------------------- qiskit gate names
\* the name of the qiskit instruction that the builder emits for each variant
\* (test_qiskit_synir: the calls s, v, s_dgr, v_dgr, x, y, z, h, cx, cz, rx,
\* ry, rz against reference_circuit)
QiskitGateName(variant) ==
  CASE variant = "S" -> <<"s">>
    [] variant = "V" -> <<"s", "x">>
    [] variant = "SDgr" -> <<"s", "d", "g">>
    [] variant = "VDgr" -> <<"s", "x", "d", "g">>
    [] variant = "X" -> <<"x">>
    [] variant = "Y" -> <<"y">>
    [] variant = "Z" -> <<"z">>
    [] variant = "H" -> <<"h">>
    [] variant = "CX" -> <<"c", "x">>
    [] variant = "CZ" -> <<"c", "z">>
    [] variant = "Rx" -> <<"r", "x">>
    [] variant = "Ry" -> <<"r", "y">>
    [] variant = "Rz" -> <<"r", "z">>

\* ------------------------------------------- qiskit Clifford and circuits
\* a QuantumCircuit: instructions with a gate name and qubit indices
QuantumCircuit(num_qubits) == [num_qubits |-> num_qubits, data |-> <<>>]

Instruction(name, qubits) == [name |-> name, qubits |-> qubits]

GateH == <<"h">>
GateX == <<"x">>
GateY == <<"y">>
GateZ == <<"z">>
GateS == <<"s">>
GateSdg == <<"s", "d", "g">>
GateSx == <<"s", "x">>
GateSxdg == <<"s", "x", "d", "g">>
GateCx == <<"c", "x">>
GateCz == <<"c", "z">>

\* the gates of qelib1.inc that take no parameter, with their qubit counts
ParameterlessGates ==
  {GateH, GateX, GateY, GateZ, GateS, GateSdg, GateSx, GateSxdg, GateCx, GateCz}

GateQubitCount(name) == IF name \in {GateCx, GateCz} THEN 2 ELSE 1

\* the stabilizer tableau of an n-qubit Clifford: 2n rows (n destabilizers, then
\* n stabilizers) of 2n + 1 booleans (n X bits, n Z bits, the phase bit)
IdentityTableau(n) ==
  [r \in 1..(2 * n) |-> [c \in 1..(2 * n + 1) |-> r = c]]

Xor(a, b) == a # b

\* one row of the tableau after appending a gate to the circuit
AppendToRow(row, n, inst) ==
  LET q0 == inst.qubits[1]
      xi == q0 + 1
      zi == n + q0 + 1
      pi == 2 * n + 1
      x == row[xi]
      z == row[zi]
  IN
  IF inst.name = GateX THEN [row EXCEPT ![pi] = Xor(@, z)]
  ELSE IF inst.name = GateY THEN [row EXCEPT ![pi] = Xor(@, Xor(x, z))]
  ELSE IF inst.name = GateZ THEN [row EXCEPT ![pi] = Xor(@, x)]
  ELSE IF inst.name = GateH
    THEN [row EXCEPT ![pi] = Xor(@, x /\ z), ![xi] = z, ![zi] = x]
  ELSE IF inst.name = GateS
    THEN [row EXCEPT ![pi] = Xor(@, x /\ z), ![zi] = Xor(z, x)]
  ELSE IF inst.name = GateSdg
    THEN [row EXCEPT ![pi] = Xor(@, x /\ ~z), ![zi] = Xor(z, x)]
  ELSE IF inst.name = GateSx
    THEN [row EXCEPT ![pi] = Xor(@, ~x /\ z), ![xi] = Xor(x, z)]
  ELSE IF inst.name = GateSxdg
    THEN [row EXCEPT ![pi] = Xor(@, x /\ z), ![xi] = Xor(x, z)]
  ELSE LET q1 == inst.qubits[2]
           xj == q1 + 1
           zj == n + q1 + 1
           x1 == row[xj]
           z1 == row[zj]
       IN IF inst.name = GateCx
          THEN [row EXCEPT ![pi] = Xor(@, Xor(Xor(x1, z), TRUE) /\ z1 /\ x),
                           ![xj] = Xor(x1, x),
                           ![zi] = Xor(z, z1)]
          ELSE [row EXCEPT ![pi] = Xor(@, x /\ x1 /\ Xor(z, z1)),
                           ![zj] = Xor(z1, x),
                           ![zi] = Xor(z, x1)]

RECURSIVE TableauFrom(_, _, _, _)
TableauFrom(tableau, n, data, i) ==
  IF i > Len(data) THEN tableau
  ELSE TableauFrom([r \in 1..(2 * n) |-> AppendToRow(tableau[r], n, data[i])],
                   n, data, i + 1)

\* Clifford(qc)
Clifford(qc) ==
  [num_qubits |-> qc.num_qubits,
   tableau |-> TableauFrom(IdentityTableau(qc.num_qubits), qc.num_qubits, qc.data, 1)]

\* ---- QuantumCircuit.from_qasm_str
IsDigit(c) == \E d \in 1..10 : DigitChar[d] = c

DigitValue(c) == (CHOOSE d \in 1..10 : DigitChar[d] = c) - 1

RECURSIVE ParseIntFrom(_, _, _)
ParseIntFrom(s, i, acc) ==
  IF i > Len(s) THEN acc
  ELSE ParseIntFrom(s, i + 1, 10 * acc + DigitValue(s[i]))

IsInteger(s) == Len(s) > 0 /\ \A i \in 1..Len(s) : IsDigit(s[i])

\* the index of a register reference q[i], -1 when the text is not one
QubitIndex(operand) ==
  IF /\ Len(operand) >= 4
     /\ SubSeq(operand, 1, 2) = <<"q", "[">>
     /\ operand[Len(operand)] = "]"
     /\ IsInteger(SubSeq(operand, 3, Len(operand) - 1))
  THEN ParseIntFrom(SubSeq(operand, 3, Len(operand) - 1), 1, 0)
  ELSE -1

RECURSIVE ParseStatements(_, _, _)
ParseStatements(lines, i, circuit) ==
  IF i > Len(lines) THEN Return(circuit)
  ELSE LET st == ParseStatement(lines[i])
           qubits == [k \in 1..Len(st.operands) |-> QubitIndex(st.operands[k])]
       IN IF st.name \notin ParameterlessGates \/ Len(st.params) # 0
            THEN Raise("QASM2ParseError", "gate is not defined: ", st.name)
          ELSE IF ~st.terminated \/ Len(qubits) # GateQubitCount(st.name)
            THEN Raise("QASM2ParseError", "bad operands: ", st.name)
          ELSE IF \E k \in 1..Len(qubits) :
                    qubits[k] < 0 \/ qubits[k] >= circuit.num_qubits
            THEN Raise("QASM2ParseError", "bad qubit: ", st.name)
          ELSE ParseStatements(lines, i + 1,
                 [circuit EXCEPT !.data = Append(@, Instruction(st.name, qubits))])

from_qasm_str(qasm) ==
  LET lines == Lines(qasm) IN
  IF \/ Len(lines) < 3
     \/ lines[1] # <<"O", "P", "E", "N", "Q", "A", "S", "M", " ", "2", ".", "0", ";">>
     \/ lines[2] # <<"i", "n", "c", "l", "u", "d", "e", " ", "\"", "q", "e", "l", "i",
                     "b", "1", ".", "i", "n", "c", "\"", ";">>
     \/ Len(lines[3]) < 10
     \/ SubSeq(lines[3], 1, 5) # <<"q", "r", "e", "g", " ">>
     \/ lines[3][Len(lines[3])] # ";"
     \/ QubitIndex(SubSeq(lines[3], 6, Len(lines[3]) - 1)) < 0
  THEN Raise("QASM2ParseError", "bad header", <<>>)
  ELSE ParseStatements(lines, 4,
         QuantumCircuit(QubitIndex(SubSeq(lines[3], 6, Len(lines[3]) - 1))))

\* ------------------------------------------------- SynPyCliffordPlugin.run
B2I(b) == IF b THEN 1 ELSE 0

\* "IZXY"[k] for Python's 0-based k
IZXY(k) == <<"I", "Z", "X", "Y">>[k + 1]

\* mutant: the lookup string has X and Z exchanged
PauliColumnsIXZY(clifford) ==
  LET n == clifford.num_qubits IN
  [q \in 1..n |->
     [r \in 1..Len(clifford.tableau) |->
        <<"I", "X", "Z", "Y">>[2 * B2I(clifford.tableau[r][q])
                                + B2I(clifford.tableau[r][n + q]) + 1]]]

\* line 19: one string per column q of the X and Z blocks, one letter per row
PauliColumns(clifford) ==
  LET n == clifford.num_qubits
      tableau_x == [r \in 1..Len(clifford.tableau) |-> SubSeq(clifford.tableau[r], 1, n)]
      tableau_z ==
        [r \in 1..Len(clifford.tableau) |-> SubSeq(clifford.tableau[r], n + 1, 2 * n)]
  IN [q \in 1..n |->
        [r \in 1..Len(clifford.tableau) |->
           IZXY(2 * B2I(tableau_x[r][q]) + B2I(tableau_z[r][q]))]]

\* line 20: the last column of the tableau
Signs(clifford) ==
  [r \in 1..Len(clifford.tableau) |-> clifford.tableau[r][Len(clifford.tableau[r])]]

\* the circuit that a command sequence denotes, gate by gate
CircuitOfCommands(n, commands) ==
  [num_qubits |-> n,
   data |-> [k \in 1..Len(commands) |->
               Instruction(QiskitGateName(commands[k].variant),
                           [j \in 1..Len(commands[k].fields) |->
                              commands[k].fields[j].v])]]

\* the core's PyCliffordTableau.synthesize may answer with any command sequence
\* that implements the tableau it was built from
ImplementsTableau(commands, clifford) ==
  Clifford(CircuitOfCommands(clifford.num_qubits, commands)) = clifford

CliffordSeqs == BoundedSeq(CliffordCommands, MaxLen)

\* run(clifford, ...): every pair of a tableau and an answer of the core to it
\* is reached by choosing the answer and taking the Clifford it implements
PluginRun ==
  /\ call = NoCall
  /\ \E commands \in CliffordSeqs :
       LET clifford == Clifford(CircuitOfCommands(NumQubits, commands))
           n == clifford.num_qubits
           pauli_columns == PauliColumns(clifford)
           signs == Signs(clifford)
           qasm == pycommand_to_qasm(n, commands)
       IN /\ ImplementsTableau(commands, clifford)
          /\ call' = [fn |-> "run", args |-> <<clifford>>]
          /\ rustCalls' =
               rustCalls
               \o <<[fn |-> "from_parts", args |-> <<pauli_columns, signs>>],
                    [fn |-> "synthesize", returns |-> commands]>>
          /\ ret' = IF qasm.kind = "raise" THEN qasm ELSE from_qasm_str(qasm.value)
  /\ UNCHANGED <<synthesizer, pp>>

NextPlugin == PluginRun

SpecPlugin == Init /\ [][NextPlugin]_vars

\* ===================================================== properties: Spec
\* what the documentation expects, stated independently of the code above
LowerName(variant) ==
  CASE variant = "H" -> <<"h">>
    [] variant = "X" -> <<"x">>
    [] variant = "Y" -> <<"y">>
    [] variant = "Z" -> <<"z">>
    [] variant = "S" -> <<"s">>
    [] variant = "SDgr" -> <<"s", "d", "g", "r">>
    [] variant = "V" -> <<"v">>
    [] variant = "VDgr" -> <<"v", "d", "g", "r">>
    [] variant = "Rx" -> <<"r", "x">>
    [] variant = "Ry" -> <<"r", "y">>
    [] variant = "Rz" -> <<"r", "z">>
    [] variant = "CX" -> <<"c", "x">>
    [] variant = "CZ" -> <<"c", "z">>

QubitRef(i) == <<"q", "[">> \o IntStr(i) \o <<"]">>

\* the qubit operands of a command, in order, written q[i]
QubitOperands(cmd) ==
  IF cmd.variant \in TwoQubitVariants
  THEN <<QubitRef(cmd.fields[1].v), QubitRef(cmd.fields[2].v)>>
  ELSE <<QubitRef(cmd.fields[1].v)>>

AllDocumented(commands) ==
  \A k \in 1..Len(commands) : commands[k].variant \in DocumentedVariants

FirstUndocumented(commands) ==
  CHOOSE k \in 1..Len(commands) :
    /\ commands[k].variant \notin DocumentedVariants
    /\ \A j \in 1..(k - 1) : commands[j].variant \in DocumentedVariants

QasmCalled == call.fn = "pycommand_to_qasm"
CircuitCalled == call.fn = "_py_commands_to_circuit"

\* C1: for documented commands the text is the three header lines followed by
\* one statement per command, in input order, each statement being the
\* lower-cased variant name, the command's qubit operands written q[i], and ';'
C1_QasmShape ==
  (QasmCalled /\ AllDocumented(call.args[2])) =>
    /\ ret.kind = "return"
    /\ LET n == call.args[1]
           commands == call.args[2]
           L == Lines(ret.value)
       IN /\ Len(L) = 3 + Len(commands)
          /\ L[1] = <<"O", "P", "E", "N", "Q", "A", "S", "M", " ", "2", ".", "0", ";">>
          /\ L[2] = <<"i", "n", "c", "l", "u", "d", "e", " ", "\"", "q", "e", "l",
                      "i", "b", "1", ".", "i", "n", "c", "\"", ";">>
          /\ L[3] = <<"q", "r", "e", "g", " ", "q", "[">> \o IntStr(n) \o <<"]", ";">>
          /\ \A k \in 1..Len(commands) :
               LET st == ParseStatement(L[3 + k]) IN
               /\ st.name = LowerName(commands[k].variant)
               /\ st.operands = QubitOperands(commands[k])
               /\ st.terminated

\* C2: a rotation's statement carries the angle as the gate's sole parameter
\* and the qubit as its only q[i] operand; the angle is never a q[...] operand
C2_RotationAngleIsParameter ==
  (QasmCalled /\ ret.kind = "return") =>
    LET commands == call.args[2]
        L == Lines(ret.value)
    IN \A k \in 1..Len(commands) :
         commands[k].variant \in RotationVariants =>
           LET st == ParseStatement(L[3 + k])
               theta == FloatStr(commands[k].fields[2].v)
           IN /\ st.params = <<theta>>
              /\ st.operands = <<QubitRef(commands[k].fields[1].v)>>
              /\ \A j \in 1..Len(st.operands) :
                   st.operands[j] # <<"q", "[">> \o theta \o <<"]">>

\* C5: an undocumented gate makes pycommand_to_tuple, tuple_to_pycommand,
\* _py_commands_to_circuit (and the QASM writer built on pycommand_to_tuple)
\* raise an error naming the first offending gate; nothing is returned
C5_FailFast ==
  /\ (call.fn = "pycommand_to_tuple"
        /\ call.args[1].variant \notin DocumentedVariants) =>
       /\ ret.kind = "raise"
       /\ ret.message.subject = call.args[1].variant
  /\ (call.fn = "tuple_to_pycommand"
        /\ call.args[1][1] \in UnknownGateNames) =>
       /\ ret.kind = "raise"
       /\ ret.message.subject = call.args[1][1]
  /\ (CircuitCalled /\ ~AllDocumented(call.args[1])) =>
       /\ ret.kind = "raise"
       /\ "value" \notin DOMAIN ret
       /\ ret.message.subject =
            call.args[1][FirstUndocumented(call.args[1])].variant
  /\ (QasmCalled /\ ~AllDocumented(call.args[2])) =>
       /\ ret.kind = "raise"
       /\ "value" \notin DOMAIN ret
       /\ ret.message.subject =
            call.args[2][FirstUndocumented(call.args[2])].variant

\* C5 witness: a circuit build that had already emitted a gate when it met an
\* undocumented variant, and raised
C5_Witness ==
  /\ CircuitCalled
  /\ ~AllDocumented(call.args[1])
  /\ FirstUndocumented(call.args[1]) > 1
  /\ ret.kind = "raise"

\* C6: every documented variant has a rendering, and rendering a sequence of
\* documented variants never raises
C6_ClosedAlphabet ==
  /\ (call.fn = "pycommand_to_tuple"
        /\ call.args[1].variant \in DocumentedVariants) => ret.kind = "return"
  /\ (QasmCalled /\ AllDocumented(call.args[2])) =>
       /\ ret.kind = "return"
       /\ LET L == Lines(ret.value) IN
          /\ Len(L) = 3 + Len(call.args[2])
          /\ \A k \in 1..Len(call.args[2]) :
               Len(ParseStatement(L[3 + k]).name) > 0

\* C6 witness: a rendered sequence of full length holding a rotation and a
\* two-qubit gate
C6_Witness ==
  /\ QasmCalled
  /\ AllDocumented(call.args[2])
  /\ Len(call.args[2]) = MaxLen
  /\ \E i, j \in 1..Len(call.args[2]) :
       /\ call.args[2][i].variant \in RotationVariants
       /\ call.args[2][j].variant \in TwoQubitVariants
  /\ ret.kind = "return"

\* the host method of each variant and the operands in the roles of the host
\* signatures cx(control, target), cz(q1, q2), rx/ry/rz(angle, qubit)
HostMethod(variant) ==
  CASE variant = "H" -> "h"
    [] variant = "X" -> "x"
    [] variant = "Y" -> "y"
    [] variant = "Z" -> "z"
    [] variant = "S" -> "s"
    [] variant = "SDgr" -> "sdg"
    [] variant = "V" -> "v"
    [] variant = "VDgr" -> "vdg"
    [] variant = "Rx" -> "rx"
    [] variant = "Ry" -> "ry"
    [] variant = "Rz" -> "rz"
    [] variant = "CX" -> "cx"
    [] variant = "CZ" -> "cz"

HostArgsInRoles(cmd) ==
  IF cmd.variant \in RotationVariants THEN <<cmd.fields[2], cmd.fields[1]>>
  ELSE cmd.fields

\* C9: _py_commands_to_circuit emits one host call per command, in order, the
\* k-th call being the k-th command's gate with its operands in their roles:
\* CX(ctrl, target) as cx(control = ctrl, target = target), R(q, theta) as
\* r(angle = theta, qubit = q)
C9_HostCallRoles ==
  (CircuitCalled /\ AllDocumented(call.args[1])) =>
    /\ ret.kind = "return"
    /\ Len(ret.value.gates) = Len(call.args[1])
    /\ \A k \in 1..Len(call.args[1]) :
         /\ ret.value.gates[k].method = HostMethod(call.args[1][k].variant)
         /\ ret.value.gates[k].args = HostArgsInRoles(call.args[1][k])

\* C10: the mnemonic written for each documented variant is the name of the
\* host gate the builder emits for it (s, sx, sdg, sxdg, x, y, z, h, cx, cz,
\* rx, ry, rz)
C10_MnemonicIsHostGateName ==
  (QasmCalled /\ AllDocumented(call.args[2])) =>
    /\ ret.kind = "return"
    /\ \A k \in 1..Len(call.args[2]) :
         ParseStatement(Lines(ret.value)[3 + k]).name =
           QiskitGateName(call.args[2][k].variant)

\* ========================================== properties: SpecPlugin
PluginCalled == call.fn = "run"

\* the letter the documentation gives to an (x, z) pair
PauliLetter(x, z) ==
  IF ~x /\ ~z THEN "I"
  ELSE IF ~x /\ z THEN "Z"
  ELSE IF x /\ ~z THEN "X"
  ELSE "Y"

\* the shape of the from_parts arguments with rows letters per column and
\* rows signs, and the letters encoding the tableau's X and Z bits
FromPartsShape(rows) ==
  LET clifford == call.args[1]
      n == clifford.num_qubits
      pauli_columns == rustCalls[1].args[1]
      signs == rustCalls[1].args[2]
  IN /\ rustCalls[1].fn = "from_parts"
     /\ Len(pauli_columns) = n
     /\ \A q \in 1..n :
          /\ Len(pauli_columns[q]) = rows
          /\ \A r \in 1..Len(pauli_columns[q]) :
               /\ pauli_columns[q][r] \in {"I", "X", "Y", "Z"}
               /\ pauli_columns[q][r] =
                    PauliLetter(clifford.tableau[r][q], clifford.tableau[r][n + q])
     /\ Len(signs) = rows

\* C3 as stated: run hands from_parts n Pauli columns of length n over
\* {I,X,Y,Z} (I=(0,0), Z=(0,1), X=(1,0), Y=(1,1)) and a sign vector of length n
C3_FromPartsLengthN ==
  PluginCalled => FromPartsShape(call.args[1].num_qubits)

\* C3 amended: run hands from_parts n Pauli columns of length 2n (one letter per
\* tableau row, destabilizers then stabilizers) over {I,X,Y,Z} with the same
\* encoding, and a sign vector of length 2n
C3_FromPartsLength2N ==
  PluginCalled => FromPartsShape(2 * call.args[1].num_qubits)

\* C3 witness: run was called on a Clifford whose columns hold all four letters
C3_Witness ==
  /\ PluginCalled
  /\ \A l \in {"I", "X", "Y", "Z"} :
       \E q \in 1..Len(rustCalls[1].args[1]) :
         \E r \in 1..Len(rustCalls[1].args[1][q]) : rustCalls[1].args[1][q][r] = l

BellCircuit ==
  [num_qubits |-> 2,
   data |-> <<Instruction(GateH, <<0>>), Instruction(GateCx, <<0, 1>>)>>]

BellCommands ==
  <<PyCommand("H", <<IntV(0)>>), PyCommand("CX", <<IntV(0), IntV(1)>>)>>

SynthesizeCalled == call.fn = "synthesize"

\* the strategy selection the core acts on: the one passed to it, or else its
\* default
CoreSelection(kwargs, key) ==
  IF key \in DOMAIN kwargs THEN kwargs[key] ELSE "NAIVE"

\* C4: the strategies given at construction are the ones the core is invoked
\* with by synthesize(), and they are all that construction stores
C4_StrategyReachesCore ==
  /\ synthesizer # None =>
       DOMAIN synthesizer = {"pauli_polynomial_strategy", "clifford_strategy"}
  /\ SynthesizeCalled =>
       /\ CoreSelection(rustCalls[1].kwargs, "pauli_strategy")
            = synthesizer.pauli_polynomial_strategy
       /\ CoreSelection(rustCalls[1].kwargs, "clifford_strategy")
            = synthesizer.clifford_strategy

PauliName(pauli) ==
  CASE pauli = "Pauli.I" -> "I"
    [] pauli = "Pauli.X" -> "X"
    [] pauli = "Pauli.Y" -> "Y"
    [] pauli = "Pauli.Z" -> "Z"

\* C7: synthesize hands the core one (Pauli string, angle) entry per gadget of
\* the polynomial, in the polynomial's order, each string of length num_qubits
\* over {I,X,Y,Z} spelling that gadget's legs and carrying that gadget's angle
C7_GadgetOrderPreserved ==
  SynthesizeCalled =>
    LET pauli_polynomial == call.args[1]
        gadgets == pauli_polynomial.pauli_gadgets
        hamiltonian == rustCalls[1].kwargs.hamiltonian
    IN /\ rustCalls[1].kwargs.nr_qubits = pauli_polynomial.num_qubits
       /\ Len(hamiltonian) = 1
       /\ Len(hamiltonian[1]) = Len(gadgets)
       /\ \A k \in 1..Len(gadgets) :
            /\ Len(hamiltonian[1][k].pauli_string) = pauli_polynomial.num_qubits
            /\ \A i \in 1..Len(hamiltonian[1][k].pauli_string) :
                 /\ hamiltonian[1][k].pauli_string[i] \in {"I", "X", "Y", "Z"}
                 /\ hamiltonian[1][k].pauli_string[i] = PauliName(gadgets[k].paulis[i])
            /\ hamiltonian[1][k].phase = gadgets[k].angle

\* C7 witness: a polynomial of two gadgets that differ in legs and in angle went
\* through synthesize
C7_Witness ==
  /\ SynthesizeCalled
  /\ Len(call.args[1].pauli_gadgets) >= 2
  /\ call.args[1].pauli_gadgets[1].paulis # call.args[1].pauli_gadgets[2].paulis
  /\ call.args[1].pauli_gadgets[1].angle # call.args[1].pauli_gadgets[2].angle
  /\ Len(rustCalls) = 1

====
